---- MODULE Spec2Model ----
(***************************************************************************)
(* Model of the work-log aggregation pipeline of src/aggregator.ts:        *)
(* parseCsv -> aggregateToBlocks -> groupBlocksByWeek, and of the views    *)
(* that load a log, display its weeks and persist the results.             *)
(*                                                                         *)
(* Conventions                                                             *)
(*  - A JavaScript string is a sequence of symbols.  The delimiter symbols *)
(*    are "LF" (\n), "CR" (\r), "," and " "; every other symbol stands for *)
(*    a run of characters without delimiters (a complete ISO timestamp, a  *)
(*    word, a number).                                                     *)
(*  - A Date is its getTime() value in milliseconds, counted in local time *)
(*    from the local midnight of a reference Monday (fixed UTC offset).    *)
(*  - Durations are carried in thousandths of a second, so that the        *)
(*    division by 1000 of aggregateToBlocks stays exact.                   *)
(*  - A JavaScript value is a record [t, n, s]: t is the type, n the       *)
(*    number when t = "num", s the text when t = "str".                    *)
(***************************************************************************)
EXTENDS Integers, Sequences, FiniteSets, TLC

VARIABLES rawCsvText, idleThreshold, parsedEntries, blocks, weeks, pc,
          loads, pending, worklogData,
          selectedWeekStart, isDragging, dragCounter, duration, rendered

vars == <<rawCsvText, idleThreshold, parsedEntries, blocks, weeks, pc,
          loads, pending, worklogData,
          selectedWeekStart, isDragging, dragCounter, duration, rendered>>

\* The asynchronous reads of raw text: loads is the text each read delivers,
\* in the order in which the reads were started; pending holds the indices
\* of the reads whose completion callback has not run yet.
loadVars == <<loads, pending>>

\* worklogData is the localStorage item of that name: the JSON text written
\* by updateAggregation, as the tree of its values, or NoItem.
NoItem == [blocks |-> <<>>, weeks |-> <<>>, present |-> FALSE]

\* The drag state of the full-screen drop zone.
dragVars == <<isDragging, dragCounter>>

\* duration is the number of seconds handed to formatSeconds and rendered
\* the text it returned ("" before the first call).
formatVars == <<duration, rendered>>

(***************************************************************************)
(* Bounds of the explored inputs.                                          *)
(***************************************************************************)
MaxLines == 3
MaxEntries == 3
MaxBlocks == 3
MaxLoads == 3
\* Last day of the explored calendar, counted from the reference Monday.
LastDay == 13

MsPerSec == 1000
MsPerDay == 86400000

(***************************************************************************)
(* JavaScript values.                                                      *)
(***************************************************************************)
Num(n) == [t |-> "num", n |-> n, s |-> <<>>]
Str(s) == [t |-> "str", n |-> 0, s |-> s]
NaN == [t |-> "nan", n |-> 0, s |-> <<>>]
Undefined == [t |-> "undef", n |-> 0, s |-> <<>>]
\* Object.prototype as seen through the inherited __proto__ accessor.
ObjectPrototype == [t |-> "obj", n |-> 0, s |-> <<>>]
\* A function inherited from Object.prototype.
BuiltinFunction == [t |-> "fn", n |-> 0, s |-> <<>>]

\* Text tokens: the decimal rendering of a number, or a fixed text.
NumText(n) == [lit |-> "", n |-> n]
LitText(l) == [lit |-> l, n |-> 0]

\* String(v) as used by the + operator.
ToStringJs(v) ==
  CASE v.t = "str" -> v.s
    [] v.t = "num" -> <<NumText(v.n)>>
    [] v.t = "nan" -> <<LitText("NaN")>>
    [] v.t = "undef" -> <<LitText("undefined")>>
    [] v.t = "obj" -> <<LitText("[object Object]")>>
    [] v.t = "fn" -> <<LitText("function () { [native code] }")>>

\* a + b
JsAdd(a, b) ==
  IF a.t \in {"num", "nan"} /\ b.t \in {"num", "nan"}
  THEN IF a.t = "num" /\ b.t = "num" THEN Num(a.n + b.n) ELSE NaN
  ELSE Str(ToStringJs(a) \o ToStringJs(b))

\* Boolean(v)
Truthy(v) ==
  CASE v.t = "num" -> v.n # 0
    [] v.t = "str" -> v.s # <<>>
    [] v.t \in {"nan", "undef"} -> FALSE
    [] OTHER -> TRUE

\* a || b
JsOr(a, b) == IF Truthy(a) THEN a ELSE b

(***************************************************************************)
(* Strings.                                                                *)
(***************************************************************************)
WhiteSpace == {" ", "CR", "LF"}

RECURSIVE TrimStart(_)
TrimStart(s) ==
  IF s # <<>> /\ Head(s) \in WhiteSpace THEN TrimStart(Tail(s)) ELSE s

RECURSIVE TrimEnd(_)
TrimEnd(s) ==
  IF s # <<>> /\ s[Len(s)] \in WhiteSpace
  THEN TrimEnd(SubSeq(s, 1, Len(s) - 1))
  ELSE s

\* String.prototype.trim
Trim(s) == TrimEnd(TrimStart(s))

\* text.split(/\r?\n/): scanning left to right, a LF ends the current piece,
\* and a CR directly before that LF belongs to the separator.
RECURSIVE SplitLinesFrom(_, _, _)
SplitLinesFrom(text, i, cur) ==
  IF i > Len(text) THEN <<cur>>
  ELSE IF text[i] = "LF"
       THEN LET piece == IF cur # <<>> /\ cur[Len(cur)] = "CR"
                         THEN SubSeq(cur, 1, Len(cur) - 1)
                         ELSE cur
            IN <<piece>> \o SplitLinesFrom(text, i + 1, <<>>)
       ELSE SplitLinesFrom(text, i + 1, Append(cur, text[i]))

SplitLines(text) == SplitLinesFrom(text, 1, <<>>)

\* line.split(',')
RECURSIVE SplitCommaFrom(_, _, _)
SplitCommaFrom(line, i, cur) ==
  IF i > Len(line) THEN <<cur>>
  ELSE IF line[i] = ","
       THEN <<cur>> \o SplitCommaFrom(line, i + 1, <<>>)
       ELSE SplitCommaFrom(line, i + 1, Append(cur, line[i]))

SplitComma(line) == SplitCommaFrom(line, 1, <<>>)

(***************************************************************************)
(* Date and Number parsing.                                                *)
(***************************************************************************)
\* The timestamp texts of the explored inputs and the instants they denote.
DateOf ==
  [d \in {"D0", "D1", "D2", "D3", "D4", "D5", "D6"} |->
     CASE d = "D0" -> 9 * 3600 * MsPerSec
       [] d = "D1" -> 9 * 3600 * MsPerSec + MsPerSec
       [] d = "D2" -> 9 * 3600 * MsPerSec + MsPerSec + 1
       [] d = "D3" -> MsPerDay + 9 * 3600 * MsPerSec
       [] d = "D4" -> 7 * MsPerDay + 9 * 3600 * MsPerSec
       [] d = "D5" -> MsPerDay - 30 * MsPerSec
       [] d = "D6" -> MsPerDay + 10 * MsPerSec]

\* The number texts of the explored inputs.
NumberOf == [d \in {"1", "2"} |-> IF d = "1" THEN 1 ELSE 2]

InvalidDate == [valid |-> FALSE, time |-> 0]

\* new Date(s): a valid Date exactly for a timestamp text.
NewDate(s) ==
  IF Len(s) = 1 /\ s[1] \in DOMAIN DateOf
  THEN [valid |-> TRUE, time |-> DateOf[s[1]]]
  ELSE InvalidDate

\* Number(s): the empty string is 0, a number text its value, else NaN.
NumberJs(s) ==
  IF s = <<>> THEN Num(0)
  ELSE IF Len(s) = 1 /\ s[1] \in DOMAIN NumberOf THEN Num(NumberOf[s[1]])
  ELSE NaN

(***************************************************************************)
(* parseCsv                                                                *)
(***************************************************************************)
CsvEntry(timestamp, appName, title, value1, value2) ==
  [timestamp |-> timestamp, appName |-> appName, title |-> title,
   value1 |-> value1, value2 |-> value2]

\* The body of the for loop: the entries one line contributes (none or one).
ParseLineMutTwoFields(line) ==
  LET parts == SplitComma(line)
      timestamp == NewDate(Trim(parts[1]))
  IN IF Len(parts) < 2 THEN <<>>
     ELSE IF ~timestamp.valid THEN <<>>
     ELSE <<CsvEntry(timestamp.time, Trim(parts[2]),
                     IF Len(parts) > 2 THEN Trim(parts[3]) ELSE <<>>,
                     NaN, NaN)>>

ParseLine(line) ==
  LET parts == SplitComma(line)
      timestamp == NewDate(Trim(parts[1]))
  IN IF Len(parts) < 3 THEN <<>>
     ELSE IF ~timestamp.valid THEN <<>>
     ELSE <<CsvEntry(timestamp.time, Trim(parts[2]), Trim(parts[3]),
                     IF Len(parts) > 3 THEN NumberJs(Trim(parts[4])) ELSE NaN,
                     IF Len(parts) > 4 THEN NumberJs(Trim(parts[5])) ELSE NaN)>>

RECURSIVE ParseLines(_)
ParseLines(lines) ==
  IF lines = <<>> THEN <<>>
  ELSE ParseLine(Head(lines)) \o ParseLines(Tail(lines))

\* Array.prototype.sort with (a, b) => a.timestamp - b.timestamp: a stable
\* sort (ECMAScript 2019), here by insertion after the last entry that is
\* not greater.
RECURSIVE InsertByTimestamp(_, _)
InsertByTimestamp(sorted, e) ==
  IF sorted = <<>> THEN <<e>>
  ELSE IF sorted[Len(sorted)].timestamp <= e.timestamp
       THEN Append(sorted, e)
       ELSE Append(InsertByTimestamp(SubSeq(sorted, 1, Len(sorted) - 1), e),
                   sorted[Len(sorted)])

RECURSIVE SortFrom(_, _)
SortFrom(sorted, rest) ==
  IF rest = <<>> THEN sorted
  ELSE SortFrom(InsertByTimestamp(sorted, Head(rest)), Tail(rest))

\* A sort that places an entry before the entries of equal timestamp.
RECURSIVE InsertByTimestampMutUnstable(_, _)
InsertByTimestampMutUnstable(sorted, e) ==
  IF sorted = <<>> THEN <<e>>
  ELSE IF sorted[Len(sorted)].timestamp < e.timestamp
       THEN Append(sorted, e)
       ELSE Append(InsertByTimestampMutUnstable(SubSeq(sorted, 1, Len(sorted) - 1), e),
                   sorted[Len(sorted)])

RECURSIVE SortFromMutUnstable(_, _)
SortFromMutUnstable(sorted, rest) ==
  IF rest = <<>> THEN sorted
  ELSE SortFromMutUnstable(InsertByTimestampMutUnstable(sorted, Head(rest)), Tail(rest))

SortByTimestampMutUnstable(entries) == SortFromMutUnstable(<<>>, entries)

SortByTimestamp(entries) == SortFrom(<<>>, entries)

parseCsv(csvText) ==
  LET lines == SelectSeq(SplitLines(csvText), LAMBDA line : Trim(line) # <<>>)
  IN SortByTimestamp(ParseLines(lines))

(***************************************************************************)
(* Plain objects used as maps (activityMap).  An object is the sequence of *)
(* its own properties [key, val] in property order: array-index keys in    *)
(* ascending numeric order first, then the other keys in creation order.   *)
(***************************************************************************)
\* The keys of the explored titles that are canonical array indices.
ArrayIndexOf == [k \in {"10", "2"} |-> IF k = "10" THEN 10 ELSE 2]

IsArrayIndex(key) == Len(key) = 1 /\ key[1] \in DOMAIN ArrayIndexOf

\* Names of the functions every object inherits from Object.prototype.
ObjectPrototypeFunctions ==
  {<<"constructor">>, <<"toString">>, <<"valueOf">>, <<"hasOwnProperty">>}

ProtoKey == <<"__proto__">>

HasOwn(obj, key) == \E i \in 1..Len(obj) : obj[i].key = key

OwnIndex(obj, key) == CHOOSE i \in 1..Len(obj) : obj[i].key = key

\* obj[key]: the own property, else what the prototype chain supplies.
ObjGet(obj, key) ==
  IF HasOwn(obj, key) THEN obj[OwnIndex(obj, key)].val
  ELSE IF key = ProtoKey THEN ObjectPrototype
  ELSE IF key \in ObjectPrototypeFunctions THEN BuiltinFunction
  ELSE Undefined

\* Position at which a new own property is created.
NewKeyPosition(obj, key) ==
  IF IsArrayIndex(key)
  THEN 1 + Cardinality({i \in 1..Len(obj) :
                           /\ IsArrayIndex(obj[i].key)
                           /\ ArrayIndexOf[obj[i].key[1]] < ArrayIndexOf[key[1]]})
  ELSE Len(obj) + 1

\* obj[key] = val: assigning a primitive to __proto__ is ignored by the
\* inherited setter; any other key updates or creates an own property.
ObjSet(obj, key, val) ==
  IF key = ProtoKey THEN obj
  ELSE IF HasOwn(obj, key)
       THEN [obj EXCEPT ![OwnIndex(obj, key)].val = val]
       ELSE LET p == NewKeyPosition(obj, key)
            IN SubSeq(obj, 1, p - 1) \o <<[key |-> key, val |-> val]>>
               \o SubSeq(obj, p, Len(obj))

\* Object.values(obj).reduce((sum, d) => sum + d, 0)
RECURSIVE ReduceSum(_, _, _)
ReduceSum(obj, i, sum) ==
  IF i > Len(obj) THEN sum ELSE ReduceSum(obj, i + 1, JsAdd(sum, obj[i].val))

\* Object.entries(obj).map(([title, durationSec]) => ({ title, durationSec }))
Activities(obj) ==
  [i \in 1..Len(obj) |-> [title |-> obj[i].key, durationSec |-> obj[i].val]]

(***************************************************************************)
(* aggregateToBlocks                                                       *)
(***************************************************************************)
AggregatedBlock(from, to, activityMap) ==
  [from |-> from, to |-> to,
   totalDurationSec |-> ReduceSum(activityMap, 1, Num(0)),
   activities |-> Activities(activityMap)]

\* gapSec, in thousandths of a second.
GapSec(current, next) == next.timestamp - current.timestamp

\* gapSec <= ignoreIdleTimeUpToSec
WithinIdleTimeMutStrict(gapSec, ignoreIdleTimeUpToSec) ==
  gapSec < ignoreIdleTimeUpToSec * MsPerSec

\* The gap in milliseconds compared with the threshold in seconds.
WithinIdleTimeMutMillis(gapSec, ignoreIdleTimeUpToSec) ==
  gapSec <= ignoreIdleTimeUpToSec

\* A negative threshold clamped to 0.
WithinIdleTimeMutClamp(gapSec, ignoreIdleTimeUpToSec) ==
  gapSec <= (IF ignoreIdleTimeUpToSec < 0 THEN 0 ELSE ignoreIdleTimeUpToSec) * MsPerSec

WithinIdleTime(gapSec, ignoreIdleTimeUpToSec) ==
  gapSec <= ignoreIdleTimeUpToSec * MsPerSec

\* The for loop from index i on, followed by the push of the final block.
RECURSIVE AggregateLoop(_, _, _, _, _, _, _)
AggregateLoop(entries, ignoreIdleTimeUpToSec, i, out, blockStart, blockEnd, activityMap) ==
  IF i > Len(entries) - 1
  THEN Append(out, AggregatedBlock(blockStart, blockEnd, activityMap))
  ELSE LET current == entries[i]
           next == entries[i + 1]
           gapSec == GapSec(current, next)
       IN IF WithinIdleTime(gapSec, ignoreIdleTimeUpToSec)
          THEN AggregateLoop(entries, ignoreIdleTimeUpToSec, i + 1, out,
                 blockStart, next.timestamp,
                 ObjSet(activityMap, current.title,
                        JsAdd(JsOr(ObjGet(activityMap, current.title), Num(0)),
                              Num(gapSec))))
          ELSE AggregateLoop(entries, ignoreIdleTimeUpToSec, i + 1,
                 Append(out, AggregatedBlock(blockStart, blockEnd, activityMap)),
                 next.timestamp, next.timestamp, <<>>)

\* The loop without the push of the final block.
aggregateToBlocksMutNoFlush(entries, ignoreIdleTimeUpToSec) ==
  IF Len(entries) = 0 THEN <<>>
  ELSE LET out == AggregateLoop(entries, ignoreIdleTimeUpToSec, 1, <<>>,
                                entries[1].timestamp, entries[1].timestamp, <<>>)
       IN SubSeq(out, 1, Len(out) - 1)

\* The early return taken for a single record as well.
aggregateToBlocksMutEarlyReturn(entries, ignoreIdleTimeUpToSec) ==
  IF Len(entries) <= 1 THEN <<>>
  ELSE AggregateLoop(entries, ignoreIdleTimeUpToSec, 1, <<>>,
                     entries[1].timestamp, entries[1].timestamp, <<>>)

aggregateToBlocks(entries, ignoreIdleTimeUpToSec) ==
  IF Len(entries) = 0 THEN <<>>
  ELSE AggregateLoop(entries, ignoreIdleTimeUpToSec, 1, <<>>,
                     entries[1].timestamp, entries[1].timestamp, <<>>)

(***************************************************************************)
(* Dates in local time.                                                    *)
(***************************************************************************)
\* d.setHours(0, 0, 0, 0): the local midnight of d's calendar day.
SetHoursZero(d) == d - (d % MsPerDay)

\* d.getDay(): 0 is Sunday; day 0 of the time scale is a Monday.
GetDay(d) == ((d \div MsPerDay) + 1) % 7

\* d.toISOString(): the text "YYYY-MM-DDTHH:mm:ss.sssZ" of the instant d, a
\* string of one symbol; distinct instants have distinct texts.
ToISOString(d) == <<"iso:" \o ToString(d)>>

NineOClock == 9 * 3600 * MsPerSec

\* The local midnights of the explored calendar.
Midnights == {k * MsPerDay : k \in 0..LastDay}

\* Record instants on a Monday, on the Tuesday of the following week.
PersistInstants ==
  { NineOClock, NineOClock + MsPerSec, NineOClock + 2 * MsPerSec + 1,
    8 * MsPerDay + NineOClock }

\* The instants whose ISO texts the explored logs can hold.
IsoInstants ==
  PersistInstants \cup Midnights \cup { DateOf[d] : d \in DOMAIN DateOf }

\* new Date(value) for an ISO text.
DateOfIso(value) == CHOOSE d \in IsoInstants : ToISOString(d) = value

\* The adjustment without the special case for Sunday.
getMondayMutSunday(date) ==
  LET day == GetDay(date)
      diff == 1 - day
  IN SetHoursZero(date + diff * MsPerDay)

\* The day itself taken as the start of its week.
getMondayMutNoShift(date) == SetHoursZero(date)

getMonday(date) ==
  LET day == GetDay(date)
      diff == (IF day = 0 THEN -6 ELSE 1) - day
  IN SetHoursZero(date + diff * MsPerDay)

(***************************************************************************)
(* Map objects (dayMap, weekMap): the sequence of [key, val] in insertion  *)
(* order.                                                                  *)
(***************************************************************************)
MapHas(map, key) == \E i \in 1..Len(map) : map[i].key = key

MapIndex(map, key) == CHOOSE i \in 1..Len(map) : map[i].key = key

\* map.get(key) || dflt   (the stored values are objects, hence truthy)
MapGetOr(map, key, dflt) ==
  IF MapHas(map, key) THEN map[MapIndex(map, key)].val ELSE dflt

\* map.set(key, val)
MapSet(map, key, val) ==
  IF MapHas(map, key)
  THEN [map EXCEPT ![MapIndex(map, key)].val = val]
  ELSE Append(map, [key |-> key, val |-> val])

\* Array.from(map.values())
MapValues(map) == [i \in 1..Len(map) |-> map[i].val]

(***************************************************************************)
(* groupBlocksByWeek                                                       *)
(***************************************************************************)
\* The day a block is filed under: the date part of block.from.
BlockDayMutTo(block) == SetHoursZero(block.to)

BlockDay(block) == SetHoursZero(block.from)

\* First loop: group blocks by day.
RECURSIVE GroupDays(_, _, _)
GroupDays(blks, i, dayMap) ==
  IF i > Len(blks) THEN dayMap
  ELSE LET block == blks[i]
           d == BlockDay(block)
           dayKey == ToISOString(d)
           dayData == MapGetOr(dayMap, dayKey,
                               [date |-> d, blocks |-> <<>>,
                                totalDurationSec |-> Num(0)])
           updated == [dayData EXCEPT
                         !.blocks = Append(@, block),
                         !.totalDurationSec = JsAdd(@, block.totalDurationSec)]
       IN GroupDays(blks, i + 1, MapSet(dayMap, dayKey, updated))

\* Second loop: group days by week.
RECURSIVE GroupWeeks(_, _, _)
GroupWeeks(days, i, weekMap) ==
  IF i > Len(days) THEN weekMap
  ELSE LET day == days[i]
           monday == getMonday(day.date)
           weekKey == ToISOString(monday)
           weekData == MapGetOr(weekMap, weekKey,
                                [weekStart |-> monday, days |-> <<>>,
                                 totalDurationSec |-> Num(0)])
           updated == [weekData EXCEPT
                         !.days = Append(@, day),
                         !.totalDurationSec = JsAdd(@, day.totalDurationSec)]
       IN GroupWeeks(days, i + 1, MapSet(weekMap, weekKey, updated))

\* .sort((a, b) => a.weekStart.getTime() - b.weekStart.getTime()), stable.
RECURSIVE InsertByWeekStart(_, _)
InsertByWeekStart(sorted, w) ==
  IF sorted = <<>> THEN <<w>>
  ELSE IF sorted[Len(sorted)].weekStart <= w.weekStart
       THEN Append(sorted, w)
       ELSE Append(InsertByWeekStart(SubSeq(sorted, 1, Len(sorted) - 1), w),
                   sorted[Len(sorted)])

RECURSIVE SortWeeksFrom(_, _)
SortWeeksFrom(sorted, rest) ==
  IF rest = <<>> THEN sorted
  ELSE SortWeeksFrom(InsertByWeekStart(sorted, Head(rest)), Tail(rest))

\* The weeks left in the insertion order of weekMap.
SortByWeekStartMutNoSort(ws) == ws

SortByWeekStart(ws) == SortWeeksFrom(<<>>, ws)

groupBlocksByWeek(blks) ==
  LET days == MapValues(GroupDays(blks, 1, <<>>))
  IN SortByWeekStart(MapValues(GroupWeeks(days, 1, <<>>)))

(***************************************************************************)
(* Explored inputs.                                                        *)
(***************************************************************************)
App == <<"App">>

\* Lines of a log file: well-formed records (with and without the optional
\* values, with surrounding blanks, with equal timestamps), a line with two
\* fields, a line with an unparseable timestamp, blank lines.
LineShapes ==
  { <<"D1", ",", "App", ",", "Write">>,
    <<"D0", ",", "App", ",", "Read", ",", "1", ",", "2">>,
    <<"D1", ",", "App", ",", "Read">>,
    <<" ", "D2", " ", ",", " ", "App", ",", "Write", " ">>,
    <<"D3", ",", "App", ",", "constructor", ",", "x">>,
    <<"D3", ",", "App">>,
    <<"x", ",", "App", ",", "Write">>,
    <<" ">>,
    <<>> }

\* Line-ending conventions: LF, CR LF, CR.
LineEndings == { <<"LF">>, <<"CR", "LF">>, <<"CR">> }

RECURSIVE JoinLines(_, _)
JoinLines(lines, ending) ==
  IF lines = <<>> THEN <<>>
  ELSE IF Len(lines) = 1 THEN lines[1]
  ELSE lines[1] \o ending \o JoinLines(Tail(lines), ending)

Texts ==
  { JoinLines(ls, e) :
      ls \in UNION { [1..n -> LineShapes] : n \in 0..MaxLines },
      e \in LineEndings }

\* Idle thresholds in seconds (the input field does not enforce its min).
IdleThresholds == {-1, 0, 1}

Titles ==
  { <<"Write">>, <<"10">>, <<"2">>, <<"__proto__">>, <<"constructor">> }

\* Instants whose pairwise gaps include 0, 1 ms, 1 s, 1 s + 1 ms and 2 s.
EntryInstants ==
  { NineOClock + k : k \in {0, 1, MsPerSec, MsPerSec + 1, 2 * MsPerSec, 2 * MsPerSec + 1} }

EntryChoices ==
  { CsvEntry(ts, App, title, NaN, NaN) : ts \in EntryInstants, title \in Titles }

IsSortedByTimestamp(entries) ==
  \A i \in 1..(Len(entries) - 1) : entries[i].timestamp <= entries[i + 1].timestamp

\* What parseCsv can return: sequences sorted by timestamp.
SortedEntries ==
  UNION { { es \in [1..n -> EntryChoices] : IsSortedByTimestamp(es) } : n \in 0..MaxEntries }

\* The block aggregateToBlocks emits for two records from and to with the
\* given title.
BlockOf(from, to, title) ==
  aggregateToBlocks(<<CsvEntry(from, App, title, NaN, NaN),
                      CsvEntry(to, App, title, NaN, NaN)>>,
                    ((to - from) \div MsPerSec) + 1)[1]

Hour == 3600 * MsPerSec

\* Blocks on Monday, around the Monday/Tuesday midnight, on Friday, around
\* the Sunday/Monday midnight and in the following week.
BlockChoices ==
  { BlockOf(9 * Hour, 10 * Hour, <<"Write">>),
    BlockOf(23 * Hour, MsPerDay + Hour, <<"Write">>),
    BlockOf(MsPerDay, MsPerDay, <<"Write">>),
    BlockOf(4 * MsPerDay + 9 * Hour, 4 * MsPerDay + 10 * Hour, <<"constructor">>),
    BlockOf(6 * MsPerDay + 23 * Hour, 7 * MsPerDay + Hour, <<"Write">>),
    BlockOf(7 * MsPerDay, 7 * MsPerDay + Hour, <<"10">>),
    BlockOf(8 * MsPerDay + 9 * Hour, 8 * MsPerDay + 9 * Hour, <<"Write">>) }

BlockSeqs == UNION { [1..n -> BlockChoices] : n \in 0..MaxBlocks }

(***************************************************************************)
(* The pipeline as a state machine.  pc is the stage reached:              *)
(* "loaded" -> "parsed" -> "aggregated" -> "grouped".                      *)
(***************************************************************************)
Init ==
  /\ rawCsvText \in Texts
  /\ idleThreshold \in IdleThresholds
  /\ parsedEntries = <<>>
  /\ blocks = <<>>
  /\ weeks = <<>>
  /\ pc = "loaded"
  /\ loads = <<>>
  /\ pending = {}
  /\ worklogData = NoItem
  /\ selectedWeekStart = <<>>
  /\ isDragging = FALSE
  /\ dragCounter = 0
  /\ duration = 0
  /\ rendered = ""

\* parsedEntries = computed(() => parseCsv(rawCsvText.value))
ParseCsvStep ==
  /\ pc = "loaded"
  /\ parsedEntries' = parseCsv(rawCsvText)
  /\ pc' = "parsed"
  /\ UNCHANGED <<rawCsvText, idleThreshold, blocks, weeks>>
  /\ UNCHANGED loadVars
  /\ UNCHANGED worklogData
  /\ UNCHANGED <<selectedWeekStart, dragVars, formatVars>>

\* blocks = computed(() => aggregateToBlocks(parsedEntries.value, idleThreshold.value))
AggregateStep ==
  /\ pc = "parsed"
  /\ blocks' = aggregateToBlocks(parsedEntries, idleThreshold)
  /\ pc' = "aggregated"
  /\ UNCHANGED <<rawCsvText, idleThreshold, parsedEntries, weeks>>
  /\ UNCHANGED loadVars
  /\ UNCHANGED worklogData
  /\ UNCHANGED <<selectedWeekStart, dragVars, formatVars>>

\* weeks = computed(() => groupBlocksByWeek(blocks.value))
GroupStep ==
  /\ pc = "aggregated"
  /\ weeks' = groupBlocksByWeek(blocks)
  /\ pc' = "grouped"
  /\ UNCHANGED <<rawCsvText, idleThreshold, parsedEntries, blocks>>
  /\ UNCHANGED loadVars
  /\ UNCHANGED worklogData
  /\ UNCHANGED <<selectedWeekStart, dragVars, formatVars>>

Next == ParseCsvStep \/ AggregateStep \/ GroupStep

Spec == Init /\ [][Next]_vars

\* aggregateToBlocks on every sorted record sequence within the bounds.
InitAgg ==
  /\ rawCsvText = <<>>
  /\ idleThreshold \in IdleThresholds
  /\ parsedEntries \in SortedEntries
  /\ blocks = <<>>
  /\ weeks = <<>>
  /\ pc = "parsed"
  /\ loads = <<>>
  /\ pending = {}
  /\ worklogData = NoItem
  /\ selectedWeekStart = <<>>
  /\ isDragging = FALSE
  /\ dragCounter = 0
  /\ duration = 0
  /\ rendered = ""

NextAgg == AggregateStep

SpecAgg == InitAgg /\ [][NextAgg]_vars

\* groupBlocksByWeek on every block sequence within the bounds, in any order.
InitGroup ==
  /\ rawCsvText = <<>>
  /\ idleThreshold = 300
  /\ parsedEntries = <<>>
  /\ blocks \in BlockSeqs
  /\ weeks = <<>>
  /\ pc = "aggregated"
  /\ loads = <<>>
  /\ pending = {}
  /\ worklogData = NoItem
  /\ selectedWeekStart = <<>>
  /\ isDragging = FALSE
  /\ dragCounter = 0
  /\ duration = 0
  /\ rendered = ""

NextGroup == GroupStep

SpecGroup == InitGroup /\ [][NextGroup]_vars

\* aggregateToBlocks called with any record sequence, sorted or not.
UnorderedChoices ==
  { CsvEntry(ts, App, title, NaN, NaN) :
      ts \in EntryInstants, title \in {<<"Write">>, <<"10">>} }

AnyEntries == UNION { [1..n -> UnorderedChoices] : n \in 0..MaxEntries }

InitAggAny ==
  /\ rawCsvText = <<>>
  /\ idleThreshold \in IdleThresholds
  /\ parsedEntries \in AnyEntries
  /\ blocks = <<>>
  /\ weeks = <<>>
  /\ pc = "parsed"
  /\ loads = <<>>
  /\ pending = {}
  /\ worklogData = NoItem
  /\ selectedWeekStart = <<>>
  /\ isDragging = FALSE
  /\ dragCounter = 0
  /\ duration = 0
  /\ rendered = ""

NextAggAny == AggregateStep

SpecAggAny == InitAggAny /\ [][NextAggAny]_vars

(***************************************************************************)
(* Loading raw text in the view: the restore from the cache at startup and *)
(* every file drop start an asynchronous read whose completion callback    *)
(* assigns rawCsvText; parsedEntries, blocks and weeks are computed from   *)
(* it.                                                                     *)
(***************************************************************************)
\* Texts of the files and of the cache entry.
LoadTexts ==
  { <<"D0", ",", "App", ",", "Write", "LF", "D1", ",", "App", ",", "Read">>,
    <<"D3", ",", "App", ",", "Write">>,
    <<"D0", ",", "App", ",", "Write", "LF", "D4", ",", "App", ",", "Write">>,
    <<"D5", ",", "App", ",", "Write", "LF", "D6", ",", "App", ",", "Write">>,
    <<>> }

DefaultIdleThreshold == 300

\* onMounted: with an entry in the cache its read is in flight; the drop
\* area of the template accepts drops from the start.
InitLoad ==
  /\ rawCsvText = <<>>
  /\ idleThreshold = DefaultIdleThreshold
  /\ parsedEntries = <<>>
  /\ blocks = <<>>
  /\ weeks = <<>>
  /\ pc = "grouped"
  /\ loads \in {<<>>} \cup {<<t>> : t \in LoadTexts}
  /\ pending = 1..Len(loads)
  /\ worklogData = NoItem
  /\ selectedWeekStart = <<>>
  /\ isDragging = FALSE
  /\ dragCounter = 0
  /\ duration = 0
  /\ rendered = ""

\* weekStarts = computed(() => weeks.value.map((week) => week.weekStart.toISOString()))
weekStarts(ws) == [i \in 1..Len(ws) |-> ToISOString(ws[i].weekStart)]

\* curr > prev on the ISO texts of two instants: texts of four-digit years
\* are ordered as their instants are.
IsoGreater(curr, prev) == DateOfIso(curr) > DateOfIso(prev)

\* newWeeks.reduce((prev, curr) => (curr > prev ? curr : prev)), from
\* element i on.
RECURSIVE ReduceLatest(_, _, _)
ReduceLatest(strs, i, prev) ==
  IF i > Len(strs) THEN prev
  ELSE ReduceLatest(strs, i + 1, IF IsoGreater(strs[i], prev) THEN strs[i] ELSE prev)

\* The latest week selected only while nothing is selected.
WatchWeekStartsMutKeep(newWeeks, oldWeeks, selected) ==
  IF JoinLines(newWeeks, <<",">>) = JoinLines(oldWeeks, <<",">>)
     \/ Len(newWeeks) = 0 \/ selected # <<>>
  THEN selected
  ELSE ReduceLatest(newWeeks, 2, newWeeks[1])

\* watch(weekStarts, (newWeeks, oldWeeks) => ...): the value of
\* selectedWeekStart after the watcher has run.
WatchWeekStarts(newWeeks, oldWeeks, selected) ==
  IF JoinLines(newWeeks, <<",">>) = JoinLines(oldWeeks, <<",">>)
     \/ Len(newWeeks) = 0
  THEN selected
  ELSE ReduceLatest(newWeeks, 2, newWeeks[1])

\* weeks.find((week) => week.weekStart.toISOString() === selected): the
\* index of the first such week, 0 when there is none.
FindWeek(ws, selected) ==
  IF \E i \in 1..Len(ws) : ToISOString(ws[i].weekStart) = selected
  THEN CHOOSE i \in 1..Len(ws) :
         /\ ToISOString(ws[i].weekStart) = selected
         /\ \A k \in 1..(i - 1) : ToISOString(ws[k].weekStart) # selected
  ELSE 0

\* selectedWeek = computed(() => weeks.value.find(...) || null): null is
\* the empty sequence, a week the sequence that holds it.
selectedWeek ==
  LET i == FindWeek(weeks, selectedWeekStart)
  IN IF i = 0 THEN <<>> ELSE <<weeks[i]>>

weekdays ==
  <<"Monday", "Tuesday", "Wednesday", "Thursday", "Friday", "Saturday", "Sunday">>

MsPerHour == 3600000
MsPerMinute == 60000

\* date.getHours(), date.getMinutes() in local time.
GetHours(date) == (date % MsPerDay) \div MsPerHour

GetMinutes(date) == (date % MsPerHour) \div MsPerMinute

\* date.getHours() + date.getMinutes() / 60, in sixtieths of an hour.
getTimeFractional(date) == GetHours(date) * 60 + GetMinutes(date)

\* d.blocks.map((b) => ({ day, label, start, end }))
DayEntries(d) ==
  [i \in 1..Len(d.blocks) |->
     [day |-> weekdays[((GetDay(d.date) + 6) % 7) + 1],
      label |-> "work",
      start |-> getTimeFractional(d.blocks[i].from),
      end |-> getTimeFractional(d.blocks[i].to)]]

\* days.flatMap(...), from day i on.
RECURSIVE FlatMapDays(_, _)
FlatMapDays(days, i) ==
  IF i > Len(days) THEN <<>> ELSE DayEntries(days[i]) \o FlatMapDays(days, i + 1)

\* timeTableChartData = computed(...)
timeTableChartData ==
  IF selectedWeek = <<>> THEN <<>> ELSE FlatMapDays(selectedWeek[1].days, 1)

\* handleDrop with a file: the drag state is reset, a FileReader is created
\* and readAsText started.
HandleDrop ==
  /\ Len(loads) < MaxLoads
  /\ \E text \in LoadTexts :
       /\ loads' = Append(loads, text)
       /\ pending' = pending \cup {Len(loads) + 1}
  /\ isDragging' = FALSE
  /\ dragCounter' = 0
  /\ UNCHANGED <<rawCsvText, idleThreshold, parsedEntries, blocks, weeks, pc>>
  /\ UNCHANGED <<worklogData, selectedWeekStart, formatVars>>

\* The computed properties for a raw text.
WeeksOf(text, threshold) ==
  groupBlocksByWeek(aggregateToBlocks(parseCsv(text), threshold))

\* reader.onload, or the continuation of onMounted after its awaits, for
\* read i: the text is assigned whichever reads were started since, and the
\* computed properties follow.
LoadComplete ==
  \E i \in pending :
    /\ pending' = pending \ {i}
    /\ rawCsvText' = loads[i]
    /\ parsedEntries' = parseCsv(loads[i])
    /\ blocks' = aggregateToBlocks(parseCsv(loads[i]), idleThreshold)
    /\ weeks' = WeeksOf(loads[i], idleThreshold)
    /\ selectedWeekStart' =
         WatchWeekStarts(weekStarts(WeeksOf(loads[i], idleThreshold)),
                         weekStarts(weeks), selectedWeekStart)
    /\ UNCHANGED <<idleThreshold, pc, loads, worklogData, dragVars, formatVars>>

NextLoad == HandleDrop \/ LoadComplete

SpecLoad == InitLoad /\ [][NextLoad]_vars

(***************************************************************************)
(* The view with its inputs: the idle threshold field and the week select. *)
(***************************************************************************)
\* Values typed into the idle threshold field.
ViewThresholds == {0, DefaultIdleThreshold}

\* v-model.number="idleThreshold": the computed blocks and weeks follow and
\* the watcher of weekStarts runs.
ChangeIdleThreshold ==
  \E newVal \in ViewThresholds \ {idleThreshold} :
    /\ idleThreshold' = newVal
    /\ blocks' = aggregateToBlocks(parsedEntries, newVal)
    /\ weeks' = groupBlocksByWeek(aggregateToBlocks(parsedEntries, newVal))
    /\ selectedWeekStart' =
         WatchWeekStarts(weekStarts(groupBlocksByWeek(aggregateToBlocks(parsedEntries, newVal))),
                         weekStarts(weeks), selectedWeekStart)
    /\ UNCHANGED <<rawCsvText, parsedEntries, pc, loads, pending, worklogData>>
    /\ UNCHANGED <<dragVars, formatVars>>

\* v-model="selectedWeekStart": the user picks one of the options, which
\* are the week starts of weeks.
SelectWeek ==
  \E i \in 1..Len(weeks) :
    /\ selectedWeekStart' = ToISOString(weeks[i].weekStart)
    /\ selectedWeekStart' # selectedWeekStart
    /\ UNCHANGED <<rawCsvText, idleThreshold, parsedEntries, blocks, weeks, pc>>
    /\ UNCHANGED <<loads, pending, worklogData, dragVars, formatVars>>

NextView == HandleDrop \/ LoadComplete \/ ChangeIdleThreshold \/ SelectWeek

SpecView == InitLoad /\ [][NextView]_vars

(***************************************************************************)
(* The drag events of the window.                                          *)
(***************************************************************************)
\* Greatest number of dragenter events counted.
MaxDrag == 3

handleDragEnter ==
  /\ dragCounter < MaxDrag
  /\ dragCounter' = dragCounter + 1
  /\ isDragging' = TRUE
  /\ UNCHANGED <<rawCsvText, idleThreshold, parsedEntries, blocks, weeks, pc>>
  /\ UNCHANGED <<loads, pending, worklogData, selectedWeekStart, formatVars>>

\* The reset at a counter of 0 left out.
ResetOnLeaveMutNegative(counter) == counter < 0

\* if (dragCounter.value <= 0)
ResetOnLeave(counter) == counter <= 0

handleDragLeave ==
  /\ IF ResetOnLeave(dragCounter - 1)
     THEN isDragging' = FALSE /\ dragCounter' = 0
     ELSE isDragging' = isDragging /\ dragCounter' = dragCounter - 1
  /\ UNCHANGED <<rawCsvText, idleThreshold, parsedEntries, blocks, weeks, pc>>
  /\ UNCHANGED <<loads, pending, worklogData, selectedWeekStart, formatVars>>

\* handleDragOver: event.preventDefault() only.
handleDragOver == UNCHANGED vars

\* handleDrop without a file (dragged text, a link): the drag state is
\* reset and nothing is read.
HandleDropNoFile ==
  /\ isDragging' = FALSE
  /\ dragCounter' = 0
  /\ UNCHANGED <<rawCsvText, idleThreshold, parsedEntries, blocks, weeks, pc>>
  /\ UNCHANGED <<loads, pending, worklogData, selectedWeekStart, formatVars>>

NextDrag ==
  \/ handleDragEnter
  \/ handleDragLeave
  \/ handleDragOver
  \/ HandleDrop
  \/ HandleDropNoFile
  \/ LoadComplete

SpecDrag == InitLoad /\ [][NextDrag]_vars

(***************************************************************************)
(* Properties of aggregateToBlocks.                                        *)
(***************************************************************************)
Aggregated == pc \in {"aggregated", "grouped"}

\* Gap between record i and record i + 1, in milliseconds.
GapAfter(i) == parsedEntries[i + 1].timestamp - parsedEntries[i].timestamp

ThresholdMs == idleThreshold * MsPerSec

Pairs == 1..(Len(parsedEntries) - 1)

\* Record i lies in block k.
InBlock(i, k) ==
  /\ blocks[k].from <= parsedEntries[i].timestamp
  /\ parsedEntries[i].timestamp <= blocks[k].to

\* A block ends at record i and the next block starts at record i + 1.
SplitAfter(i) ==
  \E k \in 1..(Len(blocks) - 1) :
    /\ blocks[k].to = parsedEntries[i].timestamp
    /\ blocks[k + 1].from = parsedEntries[i + 1].timestamp

\* C1: a gap equal to the idle threshold keeps both records in one block,
\* whose `to` reaches the second record; a gap one unit (a millisecond, or
\* a second) greater closes the block at the first record and opens a block
\* that starts at the second record.
C1_ThresholdBoundary ==
  Aggregated =>
    \A i \in Pairs :
      /\ GapAfter(i) = ThresholdMs =>
           /\ \E k \in 1..Len(blocks) : InBlock(i, k) /\ InBlock(i + 1, k)
           /\ ~SplitAfter(i)
      /\ GapAfter(i) \in {ThresholdMs + 1, ThresholdMs + MsPerSec} => SplitAfter(i)

C1_Witness ==
  /\ Aggregated
  /\ \E i \in Pairs : GapAfter(i) = ThresholdMs /\ ~SplitAfter(i)
  /\ \E j \in Pairs : GapAfter(j) = ThresholdMs + 1 /\ SplitAfter(j)

\* Numeric sum of the durations of an activities sequence.
RECURSIVE SumDurations(_)
SumDurations(acts) ==
  IF acts = <<>> THEN 0 ELSE Head(acts).durationSec.n + SumDurations(Tail(acts))

\* Sum of the gaps between the records from the one at `from` to the one at
\* `to` of a block: the gaps absorbed into it.
AbsorbedGaps(b) ==
  LET inside == {i \in Pairs : /\ b.from <= parsedEntries[i].timestamp
                               /\ parsedEntries[i + 1].timestamp <= b.to}
      RECURSIVE SumOver(_)
      SumOver(S) == IF S = {} THEN 0
                    ELSE LET i == CHOOSE x \in S : TRUE
                         IN GapAfter(i) + SumOver(S \ {i})
  IN SumOver(inside)

\* C2: in every block totalDurationSec is a number that equals the sum of
\* the activities' durations, the sum of the absorbed gaps, and to - from.
C2_SumInvariant ==
  Aggregated =>
    \A k \in 1..Len(blocks) :
      LET b == blocks[k]
      IN /\ b.totalDurationSec = Num(b.to - b.from)
         /\ \A a \in 1..Len(b.activities) : b.activities[a].durationSec.t = "num"
         /\ SumDurations(b.activities) = b.to - b.from
         /\ AbsorbedGaps(b) = b.to - b.from

\* Number of blocks whose interval contains record i.
Covering(i) == Cardinality({k \in 1..Len(blocks) : InBlock(i, k)})

BlockCountLaw ==
  Len(blocks) = 1 + Cardinality({i \in Pairs : GapAfter(i) > ThresholdMs})

\* C3 as stated: for every threshold each record lies in the interval of
\* exactly one block, and there is one block more than gaps above the
\* threshold.
C3_CoverageExactlyOnce ==
  (Aggregated /\ Len(parsedEntries) > 0) =>
    /\ \A i \in 1..Len(parsedEntries) : Covering(i) = 1
    /\ BlockCountLaw

HasTwin(i) ==
  \E j \in 1..Len(parsedEntries) :
    j # i /\ parsedEntries[j].timestamp = parsedEntries[i].timestamp

\* C3 amended: each record lies in the interval of at least one block, and
\* of exactly one when the threshold is not negative or no other record has
\* its timestamp; there is one block more than gaps above the threshold.
C3_Coverage ==
  (Aggregated /\ Len(parsedEntries) > 0) =>
    /\ \A i \in 1..Len(parsedEntries) :
         /\ Covering(i) >= 1
         /\ (idleThreshold >= 0 \/ ~HasTwin(i)) => Covering(i) = 1
    /\ BlockCountLaw

C3_Witness ==
  /\ Aggregated
  /\ idleThreshold >= 0
  /\ Len(blocks) = 2
  /\ \E i \in Pairs : GapAfter(i) > ThresholdMs
  /\ \E i \in Pairs : GapAfter(i) <= ThresholdMs /\ HasTwin(i)

\* C4: with a threshold >= 0, adjacent records inside one block are at most
\* the threshold apart, and consecutive blocks are more than the threshold
\* apart.
C4_MaximalRuns ==
  (Aggregated /\ idleThreshold >= 0) =>
    /\ \A k \in 1..Len(blocks) : \A i \in Pairs :
         (InBlock(i, k) /\ InBlock(i + 1, k)) => GapAfter(i) <= ThresholdMs
    /\ \A k \in 1..(Len(blocks) - 1) :
         blocks[k + 1].from - blocks[k].to > ThresholdMs

C4_Witness ==
  /\ Aggregated
  /\ idleThreshold = 1
  /\ Len(blocks) >= 2
  /\ \E k \in 1..Len(blocks) : \E i \in Pairs :
       InBlock(i, k) /\ InBlock(i + 1, k) /\ GapAfter(i) > 0

\* C8: the open block is always flushed.  A non-empty input gives at least
\* one block and the last block ends at the last record; one record gives
\* one block with from = to, total 0 and no activities; no records give no
\* blocks.
C8_FinalBlockFlushed ==
  Aggregated =>
    LET n == Len(parsedEntries)
    IN /\ n = 0 => blocks = <<>>
       /\ n > 0 => /\ Len(blocks) >= 1
                   /\ blocks[Len(blocks)].to = parsedEntries[n].timestamp
       /\ n = 1 => /\ Len(blocks) = 1
                   /\ blocks[1].from = parsedEntries[1].timestamp
                   /\ blocks[1].to = parsedEntries[1].timestamp
                   /\ blocks[1].totalDurationSec = Num(0)
                   /\ blocks[1].activities = <<>>

C8_Witness ==
  /\ Aggregated
  /\ Len(parsedEntries) = 1
  /\ Len(blocks) = 1

\* C9: every block has from <= to, for every threshold; with a threshold
\* >= 0 two records of equal timestamp are never split.
C9_FromBeforeTo ==
  Aggregated =>
    /\ \A k \in 1..Len(blocks) : blocks[k].from <= blocks[k].to
    /\ idleThreshold >= 0 =>
         \A i \in Pairs : GapAfter(i) = 0 =>
           /\ ~SplitAfter(i)
           /\ \E k \in 1..Len(blocks) : InBlock(i, k) /\ InBlock(i + 1, k)

C9_Witness ==
  /\ Aggregated
  /\ idleThreshold = 0
  /\ Len(blocks) = 2
  /\ \E i \in Pairs : GapAfter(i) = 0 /\ ~SplitAfter(i)

(***************************************************************************)
(* Properties of parseCsv.                                                 *)
(***************************************************************************)
Parsed == pc # "loaded"

\* The lines of a text, by position: a line starts at 1 and after every LF.
LineStarts(text) == {1} \cup {i + 1 : i \in {j \in 1..Len(text) : text[j] = "LF"}}

\* Position of the LF that ends the line starting at a, or Len(text) + 1.
LineStop(text, a) ==
  CHOOSE j \in a..(Len(text) + 1) :
    /\ j = Len(text) + 1 \/ text[j] = "LF"
    /\ \A m \in a..(j - 1) : text[m] # "LF"

\* The line starting at a, without the CR of a CR LF ending.
LineAt(text, a) ==
  LET j == LineStop(text, a)
      last == IF j <= Len(text) /\ j - 1 >= a /\ text[j - 1] = "CR"
              THEN j - 2 ELSE j - 1
  IN SubSeq(text, a, last)

Visible(s) == SelectSeq(s, LAMBDA c : c \notin WhiteSpace)

Commas(line) == {i \in 1..Len(line) : line[i] = ","}

\* The symbols before the first comma.
FirstField(line) ==
  SubSeq(line, 1, (CHOOSE i \in Commas(line) : \A m \in Commas(line) : i <= m) - 1)

\* A record line: at least 3 fields and a timestamp text as field 0.
IsRecordLine(line) ==
  /\ Cardinality(Commas(line)) >= 2
  /\ Len(Visible(FirstField(line))) = 1
  /\ Visible(FirstField(line))[1] \in DOMAIN DateOf

RecordLineStarts(text) == {a \in LineStarts(text) : IsRecordLine(LineAt(text, a))}

\* The accepted records in the order of their lines, before the sort.
RECURSIVE AcceptedFrom(_, _)
AcceptedFrom(text, a) ==
  LET j == LineStop(text, a)
      here == IF IsRecordLine(LineAt(text, a)) THEN ParseLine(LineAt(text, a)) ELSE <<>>
  IN IF j > Len(text) THEN here ELSE here \o AcceptedFrom(text, j + 1)

AcceptedInLineOrder(text) == AcceptedFrom(text, 1)

Timestamps == {DateOf[d] : d \in DOMAIN DateOf}

WithTimestamp(entries, t) == SelectSeq(entries, LAMBDA e : e.timestamp = t)

\* C5: the result of parseCsv is non-decreasing by timestamp, and records of
\* equal timestamp keep the relative order of their lines.
C5_StableSort ==
  Parsed =>
    /\ IsSortedByTimestamp(parsedEntries)
    /\ \A t \in Timestamps :
         WithTimestamp(parsedEntries, t) = WithTimestamp(AcceptedInLineOrder(rawCsvText), t)

C5_Witness ==
  /\ Parsed
  /\ parsedEntries # AcceptedInLineOrder(rawCsvText)
  /\ \E i \in 1..(Len(parsedEntries) - 1) :
       /\ parsedEntries[i].timestamp = parsedEntries[i + 1].timestamp
       /\ parsedEntries[i] # parsedEntries[i + 1]

\* C6: the result holds exactly one record for each record line (at least 3
\* fields, parseable timestamp) and none for any other line, whatever the
\* other lines are; without record lines it is empty.
C6_MalformedLinesSkipped ==
  Parsed =>
    /\ Len(parsedEntries) = Cardinality(RecordLineStarts(rawCsvText))
    /\ \A t \in Timestamps :
         Len(WithTimestamp(parsedEntries, t)) =
           Cardinality({a \in RecordLineStarts(rawCsvText) :
                          DateOf[Visible(FirstField(LineAt(rawCsvText, a)))[1]] = t})
    /\ \A i \in 1..Len(parsedEntries) :
         \E a \in RecordLineStarts(rawCsvText) :
           <<parsedEntries[i]>> = ParseLine(LineAt(rawCsvText, a))

C6_Witness ==
  /\ Parsed
  /\ Len(parsedEntries) = 1
  /\ \E a \in LineStarts(rawCsvText) :
       /\ Visible(LineAt(rawCsvText, a)) # <<>>
       /\ Cardinality(Commas(LineAt(rawCsvText, a))) < 2
  /\ \E a \in LineStarts(rawCsvText) :
       /\ Cardinality(Commas(LineAt(rawCsvText, a))) >= 2
       /\ ~IsRecordLine(LineAt(rawCsvText, a))

C6_WitnessEmpty ==
  /\ Parsed
  /\ parsedEntries = <<>>
  /\ Visible(rawCsvText) # <<>>

\* The text with every line ending (CR LF, CR or LF) written as LF.
RECURSIVE NormalizeLineEndings(_)
NormalizeLineEndings(text) ==
  IF text = <<>> THEN <<>>
  ELSE IF Head(text) = "CR"
       THEN IF Len(text) >= 2 /\ text[2] = "LF"
            THEN <<"LF">> \o NormalizeLineEndings(SubSeq(text, 3, Len(text)))
            ELSE <<"LF">> \o NormalizeLineEndings(Tail(text))
       ELSE <<Head(text)>> \o NormalizeLineEndings(Tail(text))

\* Every line of the text, under any line-ending convention, is a record.
OnlyRecordLines(text) ==
  LET lf == NormalizeLineEndings(text)
  IN \A a \in LineStarts(lf) : IsRecordLine(LineAt(lf, a))

\* C7: a text of n record lines yields the same n records whether the lines
\* end with LF, CR LF or CR.
C7_AnyLineEnding ==
  (Parsed /\ OnlyRecordLines(rawCsvText)) =>
    /\ Len(parsedEntries) = Cardinality(LineStarts(NormalizeLineEndings(rawCsvText)))
    /\ parsedEntries = parseCsv(NormalizeLineEndings(rawCsvText))

(***************************************************************************)
(* Properties of groupBlocksByWeek.                                        *)
(***************************************************************************)
Grouped == pc = "grouped"

\* The local calendar day an instant falls on.
CalendarDay(t) == CHOOSE m \in Midnights : m <= t /\ t < m + MsPerDay

\* The places <<w, d>> of the DayData in the result.
DayPlaces == {p \in (1..Len(weeks)) \X (1..MaxBlocks + 1) : p[2] <= Len(weeks[p[1]].days)}

DayAt(p) == weeks[p[1]].days[p[2]]

RECURSIVE CountBlocks(_)
CountBlocks(S) ==
  IF S = {} THEN 0
  ELSE LET p == CHOOSE x \in S : TRUE
       IN Len(DayAt(p).blocks) + CountBlocks(S \ {p})

\* C10: every block is filed in exactly one DayData of one WeekData, that of
\* the local calendar day of its `from`, also when its `to` falls on a
\* later day; a DayData holds exactly the input blocks of its day, in input
\* order.
C10_BlocksFiledByFromDay ==
  Grouped =>
    /\ \A i \in 1..Len(blocks) :
         Cardinality({p \in DayPlaces : DayAt(p).date = CalendarDay(blocks[i].from)}) = 1
    /\ \A p \in DayPlaces :
         DayAt(p).blocks =
           SelectSeq(blocks, LAMBDA b : CalendarDay(b.from) = DayAt(p).date)
    /\ CountBlocks(DayPlaces) = Len(blocks)

C10_Witness ==
  /\ Grouped
  /\ \E p \in DayPlaces :
       /\ Len(DayAt(p).blocks) = 2
       /\ DayAt(p).blocks[1] # DayAt(p).blocks[2]
       /\ \E i \in 1..2 :
            CalendarDay(DayAt(p).blocks[i].to) # CalendarDay(DayAt(p).blocks[i].from)
  /\ Cardinality(DayPlaces) = 2

\* Day of the week of a local midnight, counted from Monday = 0.
DaysSinceMonday(m) == (m \div MsPerDay) % 7

AllDays == {DayAt(p) : p \in DayPlaces}

\* C11: every weekStart is a Monday at local midnight and every day of the
\* week lies 0 to 6 calendar days after it, so that a Sunday is filed under
\* the Monday six days earlier, a Monday under itself, and a Sunday and the
\* Monday after it in two different weeks.
C11_WeekKeying ==
  Grouped =>
    /\ \A w \in 1..Len(weeks) :
         /\ weeks[w].weekStart % MsPerDay = 0
         /\ DaysSinceMonday(weeks[w].weekStart) = 0
         /\ \A d \in 1..Len(weeks[w].days) :
              /\ weeks[w].days[d].date - weeks[w].weekStart \in {k * MsPerDay : k \in 0..6}
              /\ DaysSinceMonday(weeks[w].days[d].date) = 6 =>
                   weeks[w].weekStart = weeks[w].days[d].date - 6 * MsPerDay
              /\ DaysSinceMonday(weeks[w].days[d].date) = 0 =>
                   weeks[w].weekStart = weeks[w].days[d].date
    /\ \A p, q \in DayPlaces :
         (/\ DaysSinceMonday(DayAt(p).date) = 6
          /\ DayAt(q).date = DayAt(p).date + MsPerDay) => p[1] # q[1]

C11_Witness ==
  /\ Grouped
  /\ Len(weeks) = 2
  /\ \E p, q \in DayPlaces :
       /\ DaysSinceMonday(DayAt(p).date) = 6
       /\ DayAt(q).date = DayAt(p).date + MsPerDay
       /\ weeks[p[1]].weekStart = DayAt(p).date - 6 * MsPerDay
       /\ weeks[q[1]].weekStart = DayAt(q).date

\* Numeric sum of the totalDurationSec of a sequence of blocks, days or weeks.
RECURSIVE SumTotals(_)
SumTotals(xs) ==
  IF xs = <<>> THEN 0 ELSE Head(xs).totalDurationSec.n + SumTotals(Tail(xs))

AllNumericTotals(xs) == \A i \in 1..Len(xs) : xs[i].totalDurationSec.t = "num"

\* C12: every DayData total is the sum of the totals of its blocks, every
\* WeekData total the sum of the totals of its days, and the totals of all
\* weeks add up to the totals of all input blocks.
C12_TotalsConsistent ==
  Grouped =>
    /\ \A w \in 1..Len(weeks) :
         /\ weeks[w].totalDurationSec = Num(SumTotals(weeks[w].days))
         /\ \A d \in 1..Len(weeks[w].days) :
              /\ AllNumericTotals(weeks[w].days[d].blocks)
              /\ weeks[w].days[d].totalDurationSec =
                   Num(SumTotals(weeks[w].days[d].blocks))
    /\ AllNumericTotals(weeks)
    /\ SumTotals(weeks) = SumTotals(blocks)

\* The same, for inputs whose blocks all carry a numeric total.
C12_TotalsConsistentNumeric == AllNumericTotals(blocks) => C12_TotalsConsistent

\* C13: the weeks are strictly ascending by weekStart whatever the order of
\* the input blocks, so no two weeks share a weekStart, and no two DayData
\* of the result share a calendar day.
C13_WeeksStrictlyAscending ==
  Grouped =>
    /\ \A w \in 1..(Len(weeks) - 1) : weeks[w].weekStart < weeks[w + 1].weekStart
    /\ \A v, w \in 1..Len(weeks) : v # w => weeks[v].weekStart # weeks[w].weekStart
    /\ \A p, q \in DayPlaces :
         p # q => CalendarDay(DayAt(p).date) # CalendarDay(DayAt(q).date)

\* Blocks given latest week first, with two blocks of one day among them.
C13_Witness ==
  /\ Grouped
  /\ Len(weeks) = 2
  /\ Len(blocks) = 3
  /\ CalendarDay(blocks[1].from) > CalendarDay(blocks[2].from) + 6 * MsPerDay
  /\ CalendarDay(blocks[3].from) = CalendarDay(blocks[1].from)

\* C14: no DayData is without blocks and no WeekData without days; blocks on
\* the Monday and the Friday of one week give one WeekData with two DayData;
\* no blocks give no weeks.
C14_NoZeroFilling ==
  Grouped =>
    /\ \A w \in 1..Len(weeks) :
         /\ Len(weeks[w].days) >= 1
         /\ \A d \in 1..Len(weeks[w].days) : Len(weeks[w].days[d].blocks) >= 1
    /\ blocks = <<>> => weeks = <<>>
    /\ (/\ Len(blocks) = 2
        /\ DaysSinceMonday(CalendarDay(blocks[1].from)) = 0
        /\ CalendarDay(blocks[2].from) = CalendarDay(blocks[1].from) + 4 * MsPerDay)
         => /\ Len(weeks) = 1
            /\ Len(weeks[1].days) = 2
    /\ Cardinality(DayPlaces) = Cardinality({CalendarDay(blocks[i].from) : i \in 1..Len(blocks)})

C14_Witness ==
  /\ Grouped
  /\ Len(blocks) = 2
  /\ DaysSinceMonday(CalendarDay(blocks[1].from)) = 0
  /\ CalendarDay(blocks[2].from) = CalendarDay(blocks[1].from) + 4 * MsPerDay
  /\ Len(weeks) = 1
  /\ Len(weeks[1].days) = 2

\* C15: with a negative threshold a sorted sequence of n records gives n
\* blocks, the k-th with from = to = the k-th timestamp, total 0 and no
\* activities.
C15_NegativeThreshold ==
  (Aggregated /\ idleThreshold < 0) =>
    /\ Len(blocks) = Len(parsedEntries)
    /\ \A k \in 1..Len(blocks) :
         /\ blocks[k].from = parsedEntries[k].timestamp
         /\ blocks[k].to = parsedEntries[k].timestamp
         /\ blocks[k].totalDurationSec = Num(0)
         /\ blocks[k].activities = <<>>

C15_Witness ==
  /\ Aggregated
  /\ idleThreshold < 0
  /\ Len(parsedEntries) = 3
  /\ Len(blocks) = 3
  /\ GapAfter(1) = 0
  /\ GapAfter(2) > 0

(***************************************************************************)
(* Properties of the per-title map of aggregateToBlocks.                   *)
(***************************************************************************)
\* The absorbed gaps of block k that are attributed to a title: the pairs
\* inside the block whose first record carries the title.
GapsOf(k, title) ==
  {i \in Pairs : /\ GapAfter(i) <= ThresholdMs
                 /\ InBlock(i, k) /\ InBlock(i + 1, k)
                 /\ parsedEntries[i].title = title}

RECURSIVE SumGaps(_)
SumGaps(S) ==
  IF S = {} THEN 0
  ELSE LET i == CHOOSE x \in S : TRUE IN GapAfter(i) + SumGaps(S \ {i})

EntriesFor(k, title) ==
  {a \in 1..Len(blocks[k].activities) : blocks[k].activities[a].title = title}

TitlesSeen == {parsedEntries[i].title : i \in 1..Len(parsedEntries)}

\* C18: for every title, also one that names a built-in property of
\* objects, a block lists exactly one activity for the title if and only if
\* a gap absorbed into the block is attributed to it, with the numeric sum
\* of those gaps as durationSec.
C18_PerTitleAccumulation ==
  Aggregated =>
    \A k \in 1..Len(blocks) : \A title \in TitlesSeen :
      /\ GapsOf(k, title) = {} => EntriesFor(k, title) = {}
      /\ GapsOf(k, title) # {} =>
           /\ Cardinality(EntriesFor(k, title)) = 1
           /\ \A a \in EntriesFor(k, title) :
                blocks[k].activities[a].durationSec = Num(SumGaps(GapsOf(k, title)))

BuiltinTitles == {ProtoKey} \cup ObjectPrototypeFunctions

\* The same, for records whose titles name no built-in property.
C18_PerTitleAccumulationPlain ==
  (\A i \in 1..Len(parsedEntries) : parsedEntries[i].title \notin BuiltinTitles)
    => C18_PerTitleAccumulation

\* The pair at which a title first receives a gap in block k.
FirstGap(k, title) ==
  CHOOSE i \in GapsOf(k, title) : \A j \in GapsOf(k, title) : i <= j

\* C19: the activities of a block are listed in the order in which their
\* titles first received a gap in the block.
C19_InsertionOrder ==
  Aggregated =>
    \A k \in 1..Len(blocks) :
      \A a, b \in 1..Len(blocks[k].activities) :
        a < b => FirstGap(k, blocks[k].activities[a].title)
                   < FirstGap(k, blocks[k].activities[b].title)

\* The same, for records whose titles are not canonical array indices.
C19_InsertionOrderNoIndexTitles ==
  (\A i \in 1..Len(parsedEntries) : ~IsArrayIndex(parsedEntries[i].title))
    => C19_InsertionOrder

(***************************************************************************)
(* aggregateToBlocks on input that is not sorted.                          *)
(***************************************************************************)
NonNegativeDurations(b) ==
  /\ b.totalDurationSec.n >= 0
  /\ \A a \in 1..Len(b.activities) : b.activities[a].durationSec.n >= 0

\* C20: for a record sequence with a timestamp below its predecessor's the
\* run aborts: it never completes with blocks, and no block with from > to
\* or with a negative duration is emitted.
C20_FailsLoudly ==
  ~IsSortedByTimestamp(parsedEntries) =>
    /\ pc # "aggregated"
    /\ \A k \in 1..Len(blocks) :
         blocks[k].from <= blocks[k].to /\ NonNegativeDurations(blocks[k])

\* What the code does instead: it completes, and a negative gap within the
\* threshold is absorbed like any other.
C20_SilentlyEmitted ==
  /\ pc = "aggregated"
  /\ ~IsSortedByTimestamp(parsedEntries)
  /\ \E k \in 1..Len(blocks) :
       blocks[k].from > blocks[k].to /\ ~NonNegativeDurations(blocks[k])

(***************************************************************************)
(* Properties of loading.                                                  *)
(***************************************************************************)
Settled == pending = {} /\ loads # <<>>

\* C16: once every read has completed, the raw text held is the text of the
\* read that was started last, and the weeks are those of that text, in
\* whatever order the reads completed.
C16_NewestLoadWins ==
  Settled =>
    /\ rawCsvText = loads[Len(loads)]
    /\ weeks = WeeksOf(loads[Len(loads)], idleThreshold)

\* What holds instead: the text held is that of the read that completed
\* last, which is one of the reads started.
C16_SomeLoadWins ==
  Settled =>
    /\ \E i \in 1..Len(loads) : rawCsvText = loads[i]
    /\ weeks = WeeksOf(rawCsvText, idleThreshold)

(***************************************************************************)
(* Persistence of the derived results (views/WorkLogDisplayView.vue):      *)
(* updateAggregation stores JSON.stringify({ blocks, weeks }) in the       *)
(* localStorage item worklogData and onMounted reads it back through       *)
(* JSON.parse with a reviver.  A JSON text is the tree of its values; a    *)
(* Date is written as the string of its toISOString().                     *)
(***************************************************************************)
\* null
Null == [t |-> "null", n |-> 0, s |-> <<>>]

\* A Date object as a JavaScript value.
DateValue(d) == [t |-> "date", n |-> d, s |-> <<>>]

\* value.match(/^\d\d\d\d-\d\d-\d\dT\d\d:\d\d:\d\d[.:+\dZ]+$/): the texts
\* toISOString() produces match; a word does not.
MatchesDatePattern(value) ==
  Len(value) = 1 /\ \E d \in IsoInstants : value = ToISOString(d)

\* The reviver, called with a string value.
Reviver(value) ==
  IF MatchesDatePattern(value) THEN DateValue(DateOfIso(value)) ELSE Str(value)

\* JSON.stringify of a number or of a string: NaN is written as null.
JsonValue(v) == IF v.t = "nan" THEN Null ELSE v

JsonActivity(a) ==
  [title |-> a.title, durationSec |-> JsonValue(a.durationSec)]

JsonBlock(b) ==
  [from |-> ToISOString(b.from), to |-> ToISOString(b.to),
   totalDurationSec |-> JsonValue(b.totalDurationSec),
   activities |-> [i \in 1..Len(b.activities) |-> JsonActivity(b.activities[i])]]

JsonDay(d) ==
  [date |-> ToISOString(d.date),
   blocks |-> [i \in 1..Len(d.blocks) |-> JsonBlock(d.blocks[i])],
   totalDurationSec |-> JsonValue(d.totalDurationSec)]

JsonWeek(w) ==
  [weekStart |-> ToISOString(w.weekStart),
   days |-> [i \in 1..Len(w.days) |-> JsonDay(w.days[i])],
   totalDurationSec |-> JsonValue(w.totalDurationSec)]

\* JSON.stringify({ blocks: newBlocks, weeks: newWeeks })
JsonStringify(newBlocks, newWeeks) ==
  [blocks |-> [i \in 1..Len(newBlocks) |-> JsonBlock(newBlocks[i])],
   weeks |-> [i \in 1..Len(newWeeks) |-> JsonWeek(newWeeks[i])],
   present |-> TRUE]

\* A Date object held by a property declared as a string.
DateInTitle(d) == <<"Date">> \o ToISOString(d)

\* A revived property that was written from a Date.
RevivedDate(text) ==
  LET r == Reviver(text) IN CASE r.t = "date" -> r.n

\* A revived title.
RevivedTitle(text) ==
  LET r == Reviver(text) IN IF r.t = "date" THEN DateInTitle(r.n) ELSE r.s

\* A revived duration: a number is not passed to new Date; a string is.
RevivedDuration(v) ==
  IF v.t = "str" /\ MatchesDatePattern(v.s) THEN DateValue(DateOfIso(v.s)) ELSE v

ReviveActivity(j) ==
  [title |-> RevivedTitle(j.title), durationSec |-> RevivedDuration(j.durationSec)]

ReviveBlock(j) ==
  [from |-> RevivedDate(j.from), to |-> RevivedDate(j.to),
   totalDurationSec |-> RevivedDuration(j.totalDurationSec),
   activities |-> [i \in 1..Len(j.activities) |-> ReviveActivity(j.activities[i])]]

ReviveDay(j) ==
  [date |-> RevivedDate(j.date),
   blocks |-> [i \in 1..Len(j.blocks) |-> ReviveBlock(j.blocks[i])],
   totalDurationSec |-> RevivedDuration(j.totalDurationSec)]

ReviveWeek(j) ==
  [weekStart |-> RevivedDate(j.weekStart),
   days |-> [i \in 1..Len(j.days) |-> ReviveDay(j.days[i])],
   totalDurationSec |-> RevivedDuration(j.totalDurationSec)]

\* JSON.parse(savedData, reviver)
JsonParse(savedData) ==
  [blocks |-> [i \in 1..Len(savedData.blocks) |-> ReviveBlock(savedData.blocks[i])],
   weeks |-> [i \in 1..Len(savedData.weeks) |-> ReviveWeek(savedData.weeks[i])]]

\* Titles: a word, the name of an inherited property, a title that is an
\* ISO timestamp.
PersistTitles == { <<"Write">>, <<"constructor">>, ToISOString(NineOClock) }

PersistChoices ==
  { CsvEntry(ts, App, title, NaN, NaN) : ts \in PersistInstants, title \in PersistTitles }

PersistEntries ==
  UNION { { es \in [1..n -> PersistChoices] : IsSortedByTimestamp(es) } : n \in 0..MaxEntries }

\* A file has been dropped and parsed; nothing is stored yet.
InitPersist ==
  /\ rawCsvText = <<>>
  /\ idleThreshold \in {0, 1}
  /\ parsedEntries \in PersistEntries
  /\ blocks = <<>>
  /\ weeks = <<>>
  /\ pc = "parsed"
  /\ loads = <<>>
  /\ pending = {}
  /\ worklogData = NoItem
  /\ selectedWeekStart = <<>>
  /\ isDragging = FALSE
  /\ dragCounter = 0
  /\ duration = 0
  /\ rendered = ""

\* weeks.reduce((prev, curr) => curr.weekStart > prev.weekStart ? curr : prev),
\* from element i on.
RECURSIVE ReduceLatestWeek(_, _, _)
ReduceLatestWeek(ws, i, prev) ==
  IF i > Len(ws) THEN prev
  ELSE ReduceLatestWeek(ws, i + 1,
                        IF ws[i].weekStart > prev.weekStart THEN ws[i] ELSE prev)

\* "Automatically select the latest week": the value of selectedWeekStart
\* after the selection of updateAggregation and of onMounted.
SelectLatestWeek(ws, selected) ==
  IF Len(ws) > 0
  THEN ToISOString(ReduceLatestWeek(ws, 2, ws[1]).weekStart)
  ELSE selected

\* updateAggregation() for the given records and threshold.
updateAggregation(entries, threshold) ==
  LET newBlocks == aggregateToBlocks(entries, threshold)
      newWeeks == groupBlocksByWeek(newBlocks)
  IN /\ blocks' = newBlocks
     /\ weeks' = newWeeks
     /\ selectedWeekStart' = SelectLatestWeek(newWeeks, selectedWeekStart)
     /\ worklogData' = JsonStringify(newBlocks, newWeeks)

UpdateAggregation ==
  /\ pc = "parsed"
  /\ updateAggregation(parsedEntries, idleThreshold)
  /\ pc' = "stored"
  /\ UNCHANGED <<rawCsvText, idleThreshold, parsedEntries, loads, pending>>
  /\ UNCHANGED <<dragVars, formatVars>>

\* The page is loaded again: the refs start empty and onMounted restores
\* blocks and weeks from the stored item.
OnMounted ==
  /\ pc = "stored"
  /\ rawCsvText' = <<>>
  /\ parsedEntries' = <<>>
  /\ IF worklogData.present
     THEN LET data == JsonParse(worklogData)
          IN /\ blocks' = data.blocks
             /\ weeks' = data.weeks
             /\ selectedWeekStart' = SelectLatestWeek(data.weeks, <<>>)
     ELSE blocks' = <<>> /\ weeks' = <<>> /\ selectedWeekStart' = <<>>
  /\ pc' = "restored"
  /\ UNCHANGED <<idleThreshold, loads, pending, worklogData>>
  /\ UNCHANGED <<dragVars, formatVars>>

NextPersist == UpdateAggregation \/ OnMounted

SpecPersist == InitPersist /\ [][NextPersist]_vars

(***************************************************************************)
(* The view of views/WorkLogDisplayView.vue with its inputs.  The refs     *)
(* parsedEntries, blocks and weeks are assigned by the handlers; the       *)
(* stored configuration holds the threshold last set, so a mount leaves    *)
(* idleThreshold as it was.                                                *)
(***************************************************************************)
\* The page has been mounted with nothing stored.
InitOldView ==
  /\ rawCsvText = <<>>
  /\ idleThreshold = DefaultIdleThreshold
  /\ parsedEntries = <<>>
  /\ blocks = <<>>
  /\ weeks = <<>>
  /\ pc = "restored"
  /\ loads = <<>>
  /\ pending = {}
  /\ worklogData = NoItem
  /\ selectedWeekStart = <<>>
  /\ isDragging = FALSE
  /\ dragCounter = 0
  /\ duration = 0
  /\ rendered = ""

\* handleDrop with a file, taken together with the onload of its read:
\* loads records the files read, the last one being the loaded log.
ReadFile ==
  /\ Len(loads) < MaxLoads
  /\ \E text \in LoadTexts :
       /\ loads' = Append(loads, text)
       /\ rawCsvText' = text
       /\ parsedEntries' = parseCsv(text)
       /\ updateAggregation(parseCsv(text), idleThreshold)
  /\ pc' = "stored"
  /\ UNCHANGED <<idleThreshold, pending, dragVars, formatVars>>

\* watch(idleThreshold, ...): the configuration is stored and the results
\* are recomputed if parsedEntries holds records.
WatchIdleThreshold ==
  \E newVal \in ViewThresholds \ {idleThreshold} :
    /\ idleThreshold' = newVal
    /\ IF Len(parsedEntries) > 0
       THEN updateAggregation(parsedEntries, newVal) /\ pc' = "stored"
       ELSE UNCHANGED <<blocks, weeks, selectedWeekStart, worklogData, pc>>
    /\ UNCHANGED <<rawCsvText, parsedEntries, loads, pending, dragVars, formatVars>>

NextOldView == ReadFile \/ WatchIdleThreshold \/ OnMounted \/ SelectWeek

SpecOldView == InitOldView /\ [][NextOldView]_vars

(***************************************************************************)
(* Properties of the persistence.                                          *)
(***************************************************************************)
\* The titles held by blocks.
TitlesOf(bs) ==
  UNION { { bs[i].activities[k].title : k \in 1..Len(bs[i].activities) } :
          i \in 1..Len(bs) }

\* The instants of blocks and of weeks: every from and to, every weekStart
\* and date, in place.
InstantsOfBlocks(bs) == [i \in 1..Len(bs) |-> <<bs[i].from, bs[i].to>>]

InstantsOfWeeks(ws) ==
  [i \in 1..Len(ws) |->
     [weekStart |-> ws[i].weekStart,
      days |-> [k \in 1..Len(ws[i].days) |->
                  [date |-> ws[i].days[k].date,
                   blocks |-> InstantsOfBlocks(ws[i].days[k].blocks)]]]]

\* C17: persisting blocks and weeks and reloading them is a round trip: the
\* blocks and weeks a mount restores are structurally equal to the ones
\* updateAggregation stored, for every title string.
C17_RoundTrip ==
  [][OnMounted => (blocks' = blocks /\ weeks' = weeks)]_vars

\* C17, the part that holds: every from, to, date and weekStart is restored
\* as the same instant.
C17_InstantsRoundTrip ==
  [][OnMounted => /\ InstantsOfBlocks(blocks') = InstantsOfBlocks(blocks)
                  /\ InstantsOfWeeks(weeks') = InstantsOfWeeks(weeks)]_vars

\* C17, the part that holds: blocks and weeks whose titles do not read as
\* ISO timestamps are restored unchanged.
C17_RoundTripOfOtherTitles ==
  [][(OnMounted /\ \A title \in TitlesOf(blocks) : ~MatchesDatePattern(title))
       => (blocks' = blocks /\ weeks' = weeks)]_vars

\* A title that reads as an ISO timestamp has been stored and restored.
C17_DateTitleRestored ==
  /\ pc = "restored"
  /\ \E title \in TitlesOf(blocks) : Head(title) = "Date"

(***************************************************************************)
(* Formatting of durations (formatSeconds, formatDecimalHours,             *)
(* factionalTimeToString).  time is carried in seconds, 3600 to the hour.  *)
(***************************************************************************)
\* Greatest duration formatted, in seconds.
MaxDuration == 7300

SecPerHour == 3600

\* Math.round((time % 1) * 60): the minutes of the fraction of an hour,
\* rounded to the nearest whole number.  On an exact half minute the
\* double computed from time lies on either side of the half, so that it
\* is rounded up or down.
RoundedMinutes(time) ==
  LET s == time % SecPerHour
  IN IF s % 60 = 30 THEN {s \div 60, (s \div 60) + 1} ELSE {(s + 30) \div 60}

\* `${Math.floor(time)}:${minutes < 10 ? '0' : ''}${minutes}`
formatDecimalHours(time, minutes) ==
  ToString(time \div SecPerHour) \o ":"
    \o (IF minutes < 10 THEN "0" ELSE "") \o ToString(minutes)

InitFormat ==
  /\ rawCsvText = <<>>
  /\ idleThreshold = DefaultIdleThreshold
  /\ parsedEntries = <<>>
  /\ blocks = <<>>
  /\ weeks = <<>>
  /\ pc = "format"
  /\ loads = <<>>
  /\ pending = {}
  /\ worklogData = NoItem
  /\ selectedWeekStart = <<>>
  /\ isDragging = FALSE
  /\ dragCounter = 0
  /\ duration \in 0..MaxDuration
  /\ rendered = ""

\* formatSeconds(duration) = formatDecimalHours(duration / 3600)
formatSeconds ==
  /\ pc = "format"
  /\ \E minutes \in RoundedMinutes(duration) :
       rendered' = formatDecimalHours(duration, minutes)
  /\ pc' = "formatted"
  /\ UNCHANGED <<rawCsvText, idleThreshold, parsedEntries, blocks, weeks>>
  /\ UNCHANGED <<loads, pending, worklogData, selectedWeekStart, dragVars, duration>>

NextFormat == formatSeconds

SpecFormat == InitFormat /\ [][NextFormat]_vars

(***************************************************************************)
(* Properties of the formatting.                                           *)
(***************************************************************************)
\* The text H:MM of hours h and minutes mm.
HMM(h, mm) == ToString(h) \o ":" \o (IF mm < 10 THEN "0" ELSE "") \o ToString(mm)

\* duration rounded to the nearest minute; on a half minute both
\* neighbours are nearest.
NearestMinutes(d) ==
  IF d % 60 = 30 THEN {d \div 60, (d \div 60) + 1} ELSE {(d + 30) \div 60}

RenderedHours == 0..((MaxDuration \div SecPerHour) + 1)

\* C25: a non-negative whole number of seconds is rendered as H:MM with
\* 0 <= MM <= 59 and H * 60 + MM equal to the duration rounded to the
\* nearest minute.
C25_MinutesInRange ==
  pc = "formatted" =>
    \E h \in RenderedHours, mm \in 0..59 :
      /\ rendered = HMM(h, mm)
      /\ (h * 60) + mm \in NearestMinutes(duration)

\* C25, the part that holds: durations that do not round up to a full hour.
C25_MinutesInRangeBelowHour ==
  (pc = "formatted" /\ (duration % SecPerHour) < SecPerHour - 30) =>
    \E h \in RenderedHours, mm \in 0..59 :
      /\ rendered = HMM(h, mm)
      /\ (h * 60) + mm \in NearestMinutes(duration)

\* What is rendered in the last half minute of an hour: 60 minutes, with
\* the hours not carried.
C25_SixtyMinutes ==
  (pc = "formatted" /\ (duration % SecPerHour) > SecPerHour - 30) =>
    rendered = ToString(duration \div SecPerHour) \o ":60"

(***************************************************************************)
(* Properties of the views.                                                *)
(***************************************************************************)
\* The loaded log of views/WorkLogDisplayView.vue: the file read last.
LoadedLog == loads[Len(loads)]

\* C21: after any sequence of mounts, file loads and idle-threshold
\* changes, the displayed blocks and weeks are those computed from the
\* loaded log with the current idle threshold, also when the threshold is
\* changed while the displayed weeks were restored from storage.
C21_RecomputedOnChange ==
  loads # <<>> =>
    /\ blocks = aggregateToBlocks(parseCsv(LoadedLog), idleThreshold)
    /\ weeks = WeeksOf(LoadedLog, idleThreshold)

\* C21, the part that holds: as long as the page is not mounted again the
\* results follow the threshold.
C21_RecomputedWhileLoaded ==
  (loads # <<>> /\ rawCsvText = LoadedLog) =>
    /\ blocks = aggregateToBlocks(parseCsv(LoadedLog), idleThreshold)
    /\ weeks = WeeksOf(LoadedLog, idleThreshold)

\* C21, the part that holds: the computed properties of the view with
\* computed blocks and weeks follow every change.
C21_ComputedFollow ==
  /\ blocks = aggregateToBlocks(parseCsv(rawCsvText), idleThreshold)
  /\ weeks = WeeksOf(rawCsvText, idleThreshold)

\* The greatest week start of a week list.
GreatestWeekStart(ws) ==
  CHOOSE m \in { ws[i].weekStart : i \in 1..Len(ws) } :
    \A i \in 1..Len(ws) : ws[i].weekStart <= m

SelectionValid ==
  weeks # <<>> =>
    /\ selectedWeek # <<>>
    /\ \E i \in 1..Len(weeks) : selectedWeek[1] = weeks[i]
    /\ ToISOString(selectedWeek[1].weekStart) = selectedWeekStart

\* C22: in every settled state of the view, if the weeks list is non-empty
\* the selected week is non-null and is the element of the list whose
\* weekStart equals selectedWeekStart; right after the first load that
\* yields a non-empty list it is the week with the greatest weekStart.
C22_SelectionValid ==
  /\ []SelectionValid
  /\ [][(LoadComplete /\ selectedWeekStart = <<>> /\ weeks' # <<>>)
          => selectedWeekStart' = ToISOString(GreatestWeekStart(weeks'))]_vars

\* A user selection of an older week is followed by a load that drops the
\* selected week from the list.
C22_Witness ==
  /\ Len(weeks) = 1
  /\ pending = {}
  /\ Len(loads) = MaxLoads
  /\ Len(WeeksOf(loads[1], idleThreshold)) = 2
  /\ selectedWeekStart = ToISOString(0)
  /\ rawCsvText # loads[1]

\* C22 in views/WorkLogDisplayView.vue: the selection is valid after every
\* handler.
C22_SelectionValidOldView == SelectionValid

\* C23: after any sequence of dragenter, dragleave, dragover and drop
\* events, dragCounter is >= 0 and isDragging is true exactly when
\* dragCounter > 0; a drop leaves dragCounter = 0 and isDragging = false.
C23_DragState ==
  /\ [](dragCounter >= 0 /\ (isDragging <=> dragCounter > 0))
  /\ [][(HandleDrop \/ HandleDropNoFile)
          => (dragCounter' = 0 /\ isDragging' = FALSE)]_vars

\* Two nested dragenter events, one dragleave left.
C23_Witness == dragCounter = 1 /\ isDragging /\ loads # <<>>

\* C24: every timetable entry of the selected week has start <= end, for
\* every block groupBlocksByWeek can place in a week, including blocks
\* whose to falls on a later calendar day than their from.
C24_StartBeforeEnd ==
  \A i \in 1..Len(timeTableChartData) :
    timeTableChartData[i].start <= timeTableChartData[i].end

\* C24, the part that holds: the entries of blocks that end on the day
\* they begin.
C24_StartBeforeEndSameDay ==
  selectedWeek # <<>> =>
    \A k \in 1..Len(selectedWeek[1].days) :
      LET d == selectedWeek[1].days[k]
      IN \A i \in 1..Len(d.blocks) :
           (d.blocks[i].from <= d.blocks[i].to
              /\ SetHoursZero(d.blocks[i].from) = SetHoursZero(d.blocks[i].to))
             => DayEntries(d)[i].start <= DayEntries(d)[i].end
====
